---- MODULE Spec2Model ----
(***************************************************************************)
(* The chunk group of libewf: libewf_chunk_group_fill_v1, _fill_v2,        *)
(* _correct_v1 and _generate_table_entries_data over a chunks list.        *)
(*                                                                         *)
(* TLC's integers are 32-bit signed, the program's are uint32_t, off64_t   *)
(* and size64_t.  A program integer is therefore kept as four limbs        *)
(* <<d3, d2, d1, d0>> of 16 bits each, value                               *)
(*     ((d3 * 65536 + d2) * 65536 + d1) * 65536 + d0,                      *)
(* with d0, d1, d2 in 0..65535 and d3 carrying the sign (floor).           *)
(***************************************************************************)
EXTENDS Integers, Sequences, FiniteSets, TLC

VARIABLES
    chunks_list,        \* the libfdata list: elements with their mapped range
    previous_list,      \* chunks_list as it was when the last call was made
    call,               \* the arguments of the last call
    result,             \* what the last call returned: 1, -1 (0: no call yet)
    pass,               \* the per-entry locals of the last v1 pass
    emitted,            \* table_entries_data as the last generate call left it
    previous_call,      \* the arguments of the call before the last
    previous_result,    \* what the call before the last returned
    calls,              \* the number of calls made
    build               \* what the build does on a signed overflow, once it shows

vars == <<chunks_list, previous_list, call, result, pass, emitted,
          previous_call, previous_result, calls, build>>

----------------------------------------------------------------------------
(* Limb arithmetic                                                          *)

Limb == 2^16

Norm(d3, d2, d1, d0) ==
    LET e1 == d1 + (d0 \div Limb)
        e2 == d2 + (e1 \div Limb)
    IN  <<d3 + (e2 \div Limb), e2 % Limb, e1 % Limb, d0 % Limb>>

Num(n) == Norm(0, 0, 0, n)

Add(a, b) == Norm(a[1] + b[1], a[2] + b[2], a[3] + b[3], a[4] + b[4])

Sub(a, b) == Norm(a[1] - b[1], a[2] - b[2], a[3] - b[3], a[4] - b[4])

Lt(a, b) ==
    \/ a[1] < b[1]
    \/ a[1] = b[1] /\ a[2] < b[2]
    \/ a[1] = b[1] /\ a[2] = b[2] /\ a[3] < b[3]
    \/ a[1] = b[1] /\ a[2] = b[2] /\ a[3] = b[3] /\ a[4] < b[4]

Gt(a, b) == Lt(b, a)

Zero == <<0, 0, 0, 0>>

\* (uint32_t) x: the low 32 bits
Uint32(x) == <<0, 0, x[3], x[4]>>

\* x & 0x7fffffffUL and x >> 31 of a uint32_t
Low31(x) == <<0, 0, x[3] % 32768, x[4]>>

Bit31(x) == x[3] \div 32768

\* x | 0x80000000UL of a uint32_t
SetBit31(x) == <<0, 0, (x[3] % 32768) + 32768, x[4]>>

\* the sum or difference x of two off64_t does not fit an off64_t: the
\* behaviour is undefined (signed overflow)
Overflows64(x) == x[1] > 32767 \/ x[1] < -32768

\* x in the 64 bits of an off64_t, two's complement
Int64(x) == <<((x[1] + 32768) % Limb) - 32768, x[2], x[3], x[4]>>

\* (size64_t) x
Uint64(x) == <<x[1] % Limb, x[2], x[3], x[4]>>

INT32_MAX == <<0, 0, 32767, 65535>>

UINT32_MAX == <<0, 0, 65535, 65535>>

INT64_MAX == <<32767, 65535, 65535, 65535>>

----------------------------------------------------------------------------
(* Byte codec                                                               *)

\* byte_stream_copy_to_uint32_little_endian
ReadUint32LE(bytes, at) ==
    <<0, 0, bytes[at + 3] + 256 * bytes[at + 4], bytes[at + 1] + 256 * bytes[at + 2]>>

\* byte_stream_copy_from_uint32_little_endian
WriteUint32LE(x) ==
    <<x[4] % 256, x[4] \div 256, x[3] % 256, x[3] \div 256>>

\* byte_stream_copy_to_uint64_little_endian
ReadUint64LE(bytes, at) ==
    << bytes[at + 7] + 256 * bytes[at + 8], bytes[at + 5] + 256 * bytes[at + 6],
       bytes[at + 3] + 256 * bytes[at + 4], bytes[at + 1] + 256 * bytes[at + 2] >>

\* byte_stream_copy_from_uint64_little_endian
WriteUint64LE(x) ==
    << x[4] % 256, x[4] \div 256, x[3] % 256, x[3] \div 256,
       x[2] % 256, x[2] \div 256, (x[1] % Limb) % 256, (x[1] % Limb) \div 256 >>

----------------------------------------------------------------------------
(* Range flags (the LIBEWF_RANGE_FLAG values) as a set of names, and the    *)
(* chunks list (libfdata_list_t): append, mapped range, get and set          *)

IS_COMPRESSED == "IS_COMPRESSED"
HAS_CHECKSUM == "HAS_CHECKSUM"
USES_PATTERN_FILL == "USES_PATTERN_FILL"
IS_CORRUPTED == "IS_CORRUPTED"
IS_TAINTED == "IS_TAINTED"

\* libfdata_list_append_element: the new element goes last, its mapped range unset
AppendElement(list, file_io_pool_entry, offset, size, flags) ==
    Append(list, [file_io_pool_entry |-> file_io_pool_entry, offset |-> offset,
                  size |-> size, flags |-> flags,
                  mapped_offset |-> Zero, mapped_size |-> Zero])

\* libfdata_list_set_mapped_range_by_index (element_index counts from 0)
SetMappedRange(list, element_index, mapped_offset, mapped_size) ==
    [list EXCEPT ![element_index + 1].mapped_offset = mapped_offset,
                 ![element_index + 1].mapped_size = mapped_size]

\* libfdata_list_get_element_by_index fails on an index outside the list
HasElement(list, element_index) ==
    element_index >= 0 /\ element_index < Len(list)

\* libfdata_list_set_element_by_index: the data range and flags are replaced,
\* the mapped range is kept
SetElement(list, element_index, file_io_pool_entry, offset, size, flags) ==
    [list EXCEPT ![element_index + 1].file_io_pool_entry = file_io_pool_entry,
                 ![element_index + 1].offset = offset,
                 ![element_index + 1].size = size,
                 ![element_index + 1].flags = flags]

----------------------------------------------------------------------------
(* libewf_chunk_group_fill_v1                                               *)

\* ( (ewf_table_entry_v1_t *) table_entries_data )[ index ].chunk_data_offset:
\* the read is not checked against table_entries_data_size, an index past
\* the table reads the memory that follows it (a.beyond)
StoredOffset(a, index) ==
    ReadUint32LE(a.table_entries_data \o a.beyond, 4 * index)

\* mutant: bit 31 is taken for the compression flag whatever overflow is
DecodeIsCompressed_IgnoresOverflow(stored_offset, overflow, is_compressed) ==
    Bit31(stored_offset)

\* is_compressed as the entry is decoded
DecodeIsCompressed(stored_offset, overflow, is_compressed) ==
    IF overflow = 0 THEN Bit31(stored_offset) ELSE is_compressed

\* current_offset / next_offset as the entry is decoded
DecodeOffset(stored_offset, overflow) ==
    IF overflow = 0 THEN Low31(stored_offset) ELSE stored_offset

\* chunk_data_size (uint32_t) from the current, next and stored next offset
ChunkDataSize(current_offset, next_offset, stored_offset) ==
    IF Lt(next_offset, current_offset)
    THEN Uint32(Sub(stored_offset, current_offset))
    ELSE Uint32(Sub(next_offset, current_offset))

\* mutant: a size of 0 is not taken for corruption
InteriorCorrupted_ZeroPasses(current_offset, next_offset, stored_offset, chunk_data_size) ==
    IF \/ Lt(next_offset, current_offset) /\ Lt(stored_offset, current_offset)
       \/ Gt(chunk_data_size, INT32_MAX)
    THEN 1 ELSE 0

\* corrupted of an entry that has a successor
InteriorCorrupted(current_offset, next_offset, stored_offset, chunk_data_size) ==
    IF \/ Lt(next_offset, current_offset) /\ Lt(stored_offset, current_offset)
       \/ chunk_data_size = Zero
       \/ Gt(chunk_data_size, INT32_MAX)
    THEN 1 ELSE 0

\* mutant: the sum is not brought into 32 bits
OverflowEngages_Unbounded(overflow, current_offset, chunk_data_size) ==
    /\ overflow = 0
    /\ Gt(Add(current_offset, chunk_data_size), INT32_MAX)

\* the test that sets overflow once an entry is done
OverflowEngages(overflow, current_offset, chunk_data_size) ==
    /\ overflow = 0
    /\ Gt(Uint32(Add(current_offset, chunk_data_size)), INT32_MAX)

\* mutant: the checksum flag is set whatever is_compressed is
FillV1RangeFlags_AlwaysChecksum(is_compressed, corrupted, tainted) ==
    {HAS_CHECKSUM}
        \cup (IF is_compressed # 0 THEN {IS_COMPRESSED} ELSE {})
        \cup (IF corrupted # 0 THEN {IS_CORRUPTED} ELSE {})
        \cup (IF tainted # 0 THEN {IS_TAINTED} ELSE {})

\* range_flags in fill_v1
FillV1RangeFlags(is_compressed, corrupted, tainted) ==
    (IF is_compressed # 0 THEN {IS_COMPRESSED} ELSE {HAS_CHECKSUM})
        \cup (IF corrupted # 0 THEN {IS_CORRUPTED} ELSE {})
        \cup (IF tainted # 0 THEN {IS_TAINTED} ELSE {})

\* number_of_entries - 1 is a uint32_t: 0 - 1 is 4294967295 and the loop then
\* walks the memory that follows the table.  The walk over that memory is
\* followed for the entries a.beyond holds.
InteriorEntries(a) ==
    IF a.number_of_entries = 0
    THEN (Len(a.table_entries_data \o a.beyond) \div 4) - 1
    ELSE a.number_of_entries - 1

\* mutant: the media offset is not advanced
AdvanceMediaOffset_Stuck(storage_media_offset, chunk_size) ==
    storage_media_offset

\* storage_media_offset += chunk_size
AdvanceMediaOffset(storage_media_offset, chunk_size) ==
    Add(storage_media_offset, chunk_size)

\* the pass so far and the entry it is at: the stored offset, overflow as the
\* entry found it and as it left it
Logged(s, stored_offset, overflow_after) ==
    Append(s.pass, [overflow |-> s.overflow, stored_offset |-> stored_offset,
                    overflow_after |-> overflow_after])

\* the locals a v1 pass starts with
PassStart(list) ==
    [list |-> list, storage_media_offset |-> Zero, overflow |-> 0,
     is_compressed |-> 0, chunk_data_size |-> Zero, pass |-> <<>>, failed |-> FALSE,
     wrapped |-> FALSE, trapped |-> FALSE]

\* one turn of the while loop of fill_v1
FillV1Interior(a, s, table_entry_index) ==
    LET stored_offset == StoredOffset(a, table_entry_index)
        stored_next == StoredOffset(a, table_entry_index + 1)
        is_compressed == DecodeIsCompressed(stored_offset, s.overflow, s.is_compressed)
        current_offset == DecodeOffset(stored_offset, s.overflow)
        next_offset == DecodeOffset(stored_next, s.overflow)
        chunk_data_size == ChunkDataSize(current_offset, next_offset, stored_next)
        corrupted == InteriorCorrupted(current_offset, next_offset, stored_next,
                                       chunk_data_size)
        range_flags == FillV1RangeFlags(is_compressed, corrupted, a.tainted)
        chunk_data_offset == Add(a.base_offset, current_offset)
        appended == AppendElement(s.list, a.file_io_pool_entry,
                                  Int64(chunk_data_offset),
                                  chunk_data_size, range_flags)
        mapped == SetMappedRange(appended, Len(appended) - 1,
                                 s.storage_media_offset, a.chunk_size)
        engages == OverflowEngages(s.overflow, current_offset, chunk_data_size)
        overflow_after == IF engages THEN 1 ELSE s.overflow
        logged == Logged(s, stored_offset, overflow_after)
        unfinished == Logged(s, stored_offset, s.overflow)
    IN  IF Overflows64(chunk_data_offset) /\ a.signed_overflow = "traps"
        THEN [s EXCEPT !.wrapped = TRUE, !.trapped = TRUE, !.pass = unfinished]
        ELSE [list |-> mapped,
              storage_media_offset |->
                  AdvanceMediaOffset(s.storage_media_offset, a.chunk_size),
              overflow |-> IF engages THEN 1 ELSE s.overflow,
              is_compressed |-> IF engages THEN 0 ELSE is_compressed,
              chunk_data_size |-> chunk_data_size,
              pass |-> logged,
              failed |-> FALSE,
              wrapped |-> s.wrapped \/ Overflows64(chunk_data_offset),
              trapped |-> FALSE]

RECURSIVE FillV1Loop(_, _, _)
FillV1Loop(a, s, table_entry_index) ==
    IF table_entry_index < InteriorEntries(a) /\ ~s.trapped
    THEN FillV1Loop(a, FillV1Interior(a, s, table_entry_index), table_entry_index + 1)
    ELSE s

\* last_chunk_data_size from the table section, before it is brought into the
\* 64 bits of an off64_t
LastChunkDataSize(last_chunk_data_offset, table_section) ==
    IF Lt(last_chunk_data_offset, table_section.start_offset)
    THEN Sub(table_section.start_offset, last_chunk_data_offset)
    ELSE IF Lt(last_chunk_data_offset, table_section.end_offset)
         THEN Sub(table_section.end_offset, last_chunk_data_offset)
         ELSE Zero

\* corrupted of the last entry
LastCorrupted(last_chunk_data_size) ==
    IF ~Gt(last_chunk_data_size, Zero) \/ Gt(last_chunk_data_size, INT32_MAX)
    THEN 1 ELSE 0

\* the last entry of fill_v1, after the loop
FillV1Last(a, s) ==
    LET table_entry_index == InteriorEntries(a)
        stored_offset == StoredOffset(a, table_entry_index)
        is_compressed == DecodeIsCompressed(stored_offset, s.overflow, s.is_compressed)
        current_offset == DecodeOffset(stored_offset, s.overflow)
        sum == Add(a.base_offset, current_offset)
        last_chunk_data_offset == Int64(sum)
        difference == LastChunkDataSize(last_chunk_data_offset, a.table_section)
        last_chunk_data_size == Int64(difference)
        corrupted == LastCorrupted(last_chunk_data_size)
        range_flags == FillV1RangeFlags(is_compressed, corrupted, a.tainted)
        appended == AppendElement(s.list, a.file_io_pool_entry, last_chunk_data_offset,
                                  Uint64(last_chunk_data_size), range_flags)
        mapped == SetMappedRange(appended, Len(appended) - 1,
                                 s.storage_media_offset, a.chunk_size)
        logged == Logged(s, stored_offset, s.overflow)
        overflows == Overflows64(sum) \/ Overflows64(difference)
    IN  IF s.trapped
        THEN s
        ELSE IF overflows /\ a.signed_overflow = "traps"
             THEN [s EXCEPT !.wrapped = TRUE, !.trapped = TRUE, !.pass = logged]
             ELSE IF Gt(last_chunk_data_offset, INT64_MAX)
                  THEN [s EXCEPT !.failed = TRUE, !.pass = logged]
                  ELSE [s EXCEPT !.list = mapped, !.pass = logged,
                                 !.wrapped = s.wrapped \/ overflows]

\* what a pass returns: 1, -1, or 0 for a pass the build stopped in the
\* middle on a signed overflow
PassResult(s) ==
    [list |-> s.list,
     result |-> IF s.trapped THEN 0 ELSE IF s.failed THEN -1 ELSE 1,
     pass |-> s.pass, wrapped |-> s.wrapped]

\* libewf_chunk_group_fill_v1 on list with the arguments a
FillV1(list, a) ==
    IF Lt(a.base_offset, Zero)
    THEN [list |-> list, result |-> -1, pass |-> <<>>, wrapped |-> FALSE]
    ELSE PassResult(FillV1Last(a, FillV1Loop(a, PassStart(list), 0)))

----------------------------------------------------------------------------
(* libewf_chunk_group_fill_v2                                               *)

\* sizeof( ewf_table_entry_v1_t ), sizeof( ewf_table_entry_v2_t ) and
\* sizeof( ewf_table_header_v2_t )
TableEntryV1Size == 4

TableEntryV2Size == 16

TableHeaderV2Size == 24

\* LIBEWF_CHUNK_DATA_FLAG_IS_COMPRESSED, _HAS_CHECKSUM and _USES_PATTERN_FILL
CHUNK_DATA_FLAG_IS_COMPRESSED == 1

CHUNK_DATA_FLAG_HAS_CHECKSUM == 2

CHUNK_DATA_FLAG_USES_PATTERN_FILL == 4

\* ( chunk_data_flags & flag ) != 0, flag a single bit of the low 16
HasChunkDataFlag(chunk_data_flags, flag) ==
    (chunk_data_flags[4] \div flag) % 2 = 1

\* mutant: the pattern fill bit is looked at whatever the compressed bit is
FillV2RangeFlags_Unnested(chunk_data_flags, tainted) ==
    (IF HasChunkDataFlag(chunk_data_flags, CHUNK_DATA_FLAG_IS_COMPRESSED)
     THEN {IS_COMPRESSED} ELSE {})
        \cup (IF HasChunkDataFlag(chunk_data_flags, CHUNK_DATA_FLAG_USES_PATTERN_FILL)
              THEN {USES_PATTERN_FILL} ELSE {})
        \cup (IF HasChunkDataFlag(chunk_data_flags, CHUNK_DATA_FLAG_HAS_CHECKSUM)
              THEN {HAS_CHECKSUM} ELSE {})
        \cup (IF tainted # 0 THEN {IS_TAINTED} ELSE {})

\* range_flags in fill_v2
FillV2RangeFlags(chunk_data_flags, tainted) ==
    (IF HasChunkDataFlag(chunk_data_flags, CHUNK_DATA_FLAG_IS_COMPRESSED)
     THEN {IS_COMPRESSED}
          \cup (IF HasChunkDataFlag(chunk_data_flags, CHUNK_DATA_FLAG_USES_PATTERN_FILL)
                THEN {USES_PATTERN_FILL} ELSE {})
     ELSE {})
        \cup (IF HasChunkDataFlag(chunk_data_flags, CHUNK_DATA_FLAG_HAS_CHECKSUM)
              THEN {HAS_CHECKSUM} ELSE {})
        \cup (IF tainted # 0 THEN {IS_TAINTED} ELSE {})

\* mutant: the size the entry stores is kept
PatternFillRange_KeepsSize(range_flags, table_entry_offset, chunk_data_offset, chunk_data_size) ==
    IF USES_PATTERN_FILL \in range_flags
    THEN <<table_entry_offset, chunk_data_size>>
    ELSE <<chunk_data_offset, chunk_data_size>>

\* chunk_data_offset and chunk_data_size once the pattern fill is looked at
PatternFillRange(range_flags, table_entry_offset, chunk_data_offset, chunk_data_size) ==
    IF USES_PATTERN_FILL \in range_flags
    THEN <<table_entry_offset, Num(8)>>
    ELSE <<chunk_data_offset, chunk_data_size>>

\* one turn of the while loop of fill_v2 on the entry at byte position at
FillV2Entry(a, s, at) ==
    LET chunk_data_offset == ReadUint64LE(a.table_entries_data, at)
        chunk_data_size == ReadUint32LE(a.table_entries_data, at + 8)
        chunk_data_flags == ReadUint32LE(a.table_entries_data, at + 12)
        range_flags == FillV2RangeFlags(chunk_data_flags, a.tainted)
        range == PatternFillRange(range_flags, s.table_entry_offset,
                                  chunk_data_offset, chunk_data_size)
        appended == AppendElement(s.list, a.file_io_pool_entry, Int64(range[1]),
                                  range[2], range_flags)
        mapped == SetMappedRange(appended, Len(appended) - 1,
                                 s.storage_media_offset, a.chunk_size)
    IN  [list |-> mapped,
         storage_media_offset |-> AdvanceMediaOffset(s.storage_media_offset, a.chunk_size),
         table_entry_offset |-> Add(s.table_entry_offset, Num(TableEntryV2Size))]

RECURSIVE FillV2Loop(_, _, _)
FillV2Loop(a, s, at) ==
    IF Len(a.table_entries_data) - at >= TableEntryV2Size
    THEN FillV2Loop(a, FillV2Entry(a, s, at), at + TableEntryV2Size)
    ELSE s

\* libewf_chunk_group_fill_v2 on list with the arguments a
FillV2(list, a) ==
    LET s == FillV2Loop(a, [list |-> list, storage_media_offset |-> Zero,
                            table_entry_offset |->
                                Add(a.table_section.start_offset, Num(TableHeaderV2Size))],
                        0)
    IN  [list |-> s.list, result |-> 1, pass |-> <<>>, wrapped |-> FALSE]

----------------------------------------------------------------------------
(* libewf_chunk_group_correct_v1                                            *)

\* range_flags in correct_v1
CorrectV1RangeFlags(is_compressed, corrupted, tainted) ==
    {HAS_CHECKSUM}
        \cup (IF is_compressed # 0 THEN {IS_COMPRESSED} ELSE {})
        \cup (IF corrupted # 0 THEN {IS_CORRUPTED} ELSE {})
        \cup (IF tainted # 0 THEN {IS_TAINTED} ELSE {})

\* mismatch of the derived data range against the element in the list
Mismatch(offset, chunk_data_size, range_flags, previous) ==
    IF offset # previous.offset
    THEN 1
    ELSE IF chunk_data_size # previous.size
         THEN 1
         ELSE IF (IS_COMPRESSED \in range_flags) # (IS_COMPRESSED \in previous.flags)
              THEN 1
              ELSE 0

\* update_data_range
UpdateDataRange(mismatch, corrupted, tainted, previous_range_flags) ==
    IF mismatch # 0
    THEN IF corrupted = 0 /\ tainted = 0
         THEN 1
         ELSE IF IS_CORRUPTED \in previous_range_flags /\ corrupted = 0
              THEN 1
              ELSE 0
    ELSE IF IS_TAINTED \in previous_range_flags
         THEN 1
         ELSE 0

\* get the element, compare, and set it when update_data_range says so
CorrectElement(a, list, table_entry_index, offset, chunk_data_size, corrupted, range_flags) ==
    LET previous == list[table_entry_index + 1]
        mismatch == Mismatch(offset, chunk_data_size, range_flags, previous)
    IN  IF UpdateDataRange(mismatch, corrupted, a.tainted, previous.flags) # 0
        THEN SetElement(list, table_entry_index, a.file_io_pool_entry, offset,
                        chunk_data_size, range_flags)
        ELSE list

\* one turn of the while loop of correct_v1
CorrectV1Interior(a, s, table_entry_index) ==
    LET stored_offset == StoredOffset(a, table_entry_index)
        stored_next == StoredOffset(a, table_entry_index + 1)
        is_compressed == DecodeIsCompressed(stored_offset, s.overflow, s.is_compressed)
        current_offset == DecodeOffset(stored_offset, s.overflow)
        next_offset == DecodeOffset(stored_next, s.overflow)
        chunk_data_size == ChunkDataSize(current_offset, next_offset, stored_next)
        corrupted == InteriorCorrupted(current_offset, next_offset, stored_next,
                                       chunk_data_size)
        range_flags == CorrectV1RangeFlags(is_compressed, corrupted, a.tainted)
        engages == OverflowEngages(s.overflow, current_offset, chunk_data_size)
        overflow_after == IF engages THEN 1 ELSE s.overflow
        logged == Logged(s, stored_offset, overflow_after)
        unfinished == Logged(s, stored_offset, s.overflow)
        chunk_data_offset == Add(a.base_offset, current_offset)
    IN  IF ~HasElement(s.list, table_entry_index)
        THEN [s EXCEPT !.failed = TRUE, !.chunk_data_size = chunk_data_size,
                       !.is_compressed = is_compressed, !.pass = unfinished]
        ELSE IF Overflows64(chunk_data_offset) /\ a.signed_overflow = "traps"
             THEN [s EXCEPT !.wrapped = TRUE, !.trapped = TRUE, !.pass = unfinished]
             ELSE [list |-> CorrectElement(a, s.list, table_entry_index,
                                           Int64(chunk_data_offset),
                                           chunk_data_size, corrupted, range_flags),
                   storage_media_offset |-> s.storage_media_offset,
                   overflow |-> IF engages THEN 1 ELSE s.overflow,
                   is_compressed |-> IF engages THEN 0 ELSE is_compressed,
                   chunk_data_size |-> chunk_data_size,
                   pass |-> logged,
                   failed |-> FALSE,
                   wrapped |-> s.wrapped \/ Overflows64(chunk_data_offset),
                   trapped |-> FALSE]

RECURSIVE CorrectV1Loop(_, _, _)
CorrectV1Loop(a, s, table_entry_index) ==
    IF table_entry_index < InteriorEntries(a) /\ ~s.failed /\ ~s.trapped
    THEN CorrectV1Loop(a, CorrectV1Interior(a, s, table_entry_index),
                       table_entry_index + 1)
    ELSE s

\* the last entry of correct_v1, after the loop
CorrectV1Last(a, s) ==
    LET table_entry_index == InteriorEntries(a)
        stored_offset == StoredOffset(a, table_entry_index)
        is_compressed == DecodeIsCompressed(stored_offset, s.overflow, s.is_compressed)
        current_offset == DecodeOffset(stored_offset, s.overflow)
        sum == Add(a.base_offset, current_offset)
        last_chunk_data_offset == Int64(sum)
        difference == LastChunkDataSize(last_chunk_data_offset, a.table_section)
        less_section == Sub(Int64(difference), a.table_section.size)
        last_chunk_data_size == Int64(less_section)
        corrupted == LastCorrupted(last_chunk_data_size)
        range_flags == CorrectV1RangeFlags(is_compressed, corrupted, a.tainted)
        logged == Logged(s, stored_offset, s.overflow)
        overflows == \/ Overflows64(sum)
                     \/ Overflows64(difference)
                     \/ Overflows64(less_section)
    IN  IF overflows /\ a.signed_overflow = "traps"
        THEN [s EXCEPT !.wrapped = TRUE, !.trapped = TRUE, !.pass = logged]
        ELSE IF \/ Gt(last_chunk_data_offset, INT64_MAX)
                \/ ~HasElement(s.list, table_entry_index)
             THEN [s EXCEPT !.failed = TRUE, !.pass = logged,
                            !.wrapped = s.wrapped \/ overflows]
             ELSE [s EXCEPT !.list = CorrectElement(a, s.list, table_entry_index,
                                                    last_chunk_data_offset,
                                                    s.chunk_data_size, corrupted,
                                                    range_flags),
                            !.pass = logged,
                            !.wrapped = s.wrapped \/ overflows]

\* libewf_chunk_group_correct_v1 on list with the arguments a
CorrectV1(list, a) ==
    IF Lt(a.base_offset, Zero)
    THEN [list |-> list, result |-> -1, pass |-> <<>>, wrapped |-> FALSE]
    ELSE LET looped == CorrectV1Loop(a, PassStart(list), 0)
         IN  PassResult(IF looped.failed \/ looped.trapped
                        THEN looped ELSE CorrectV1Last(a, looped))

----------------------------------------------------------------------------
(* libewf_chunk_group_generate_table_entries_data                           *)

\* the bytes of new written into bytes after the first at bytes
WriteAt(bytes, at, new) ==
    [k \in 1..Len(bytes) |->
        IF k > at /\ k <= at + Len(new) THEN new[k - at] ELSE bytes[k]]

\* mutant: an offset below the base offset passes
OffsetOutOfBounds_NegativePasses(chunk_data_offset) ==
    Gt(chunk_data_offset, INT32_MAX)

\* chunk_data_offset, less the base offset, does not fit a version 1 entry
OffsetOutOfBounds(chunk_data_offset) ==
    Lt(chunk_data_offset, Zero) \/ Gt(chunk_data_offset, INT32_MAX)

\* mutant: the compression flag is not written
TableOffsetV1_NoCompressedBit(chunk_data_offset, range_flags) ==
    Uint32(chunk_data_offset)

\* table_offset of a version 1 entry
TableOffsetV1(chunk_data_offset, range_flags) ==
    IF IS_COMPRESSED \in range_flags
    THEN SetBit31(Uint32(chunk_data_offset))
    ELSE Uint32(chunk_data_offset)

\* mutant: the tainted flag is written as 0x8
ChunkDataFlagsV2_PersistsTainted(range_flags) ==
    Num((IF IS_COMPRESSED \in range_flags THEN CHUNK_DATA_FLAG_IS_COMPRESSED ELSE 0)
        + (IF HAS_CHECKSUM \in range_flags THEN CHUNK_DATA_FLAG_HAS_CHECKSUM ELSE 0)
        + (IF USES_PATTERN_FILL \in range_flags
           THEN CHUNK_DATA_FLAG_USES_PATTERN_FILL ELSE 0)
        + (IF IS_TAINTED \in range_flags THEN 8 ELSE 0))

\* chunk_data_flags of a version 2 entry
ChunkDataFlagsV2(range_flags) ==
    Num((IF IS_COMPRESSED \in range_flags THEN CHUNK_DATA_FLAG_IS_COMPRESSED ELSE 0)
        + (IF HAS_CHECKSUM \in range_flags THEN CHUNK_DATA_FLAG_HAS_CHECKSUM ELSE 0)
        + (IF USES_PATTERN_FILL \in range_flags
           THEN CHUNK_DATA_FLAG_USES_PATTERN_FILL ELSE 0))

\* the bytes of a version 2 entry
TableEntryV2(element) ==
    WriteUint64LE(element.offset) \o WriteUint32LE(Uint32(element.size))
        \o WriteUint32LE(ChunkDataFlagsV2(element.flags))

\* one turn of the for loop; s.data is table_entries_data as written so far
GenerateEntry(list, a, s, table_entry_index) ==
    IF ~HasElement(list, table_entry_index)
    THEN [s EXCEPT !.failed = TRUE]
    ELSE LET element == list[table_entry_index + 1]
             difference == Sub(element.offset, a.base_offset)
             relative == Int64(difference)
         IN  IF a.format_version = 1
             THEN IF Overflows64(difference) /\ a.signed_overflow = "traps"
                  THEN [s EXCEPT !.wrapped = TRUE, !.trapped = TRUE]
                  ELSE IF OffsetOutOfBounds(relative)
                       THEN [s EXCEPT !.failed = TRUE,
                                      !.wrapped = s.wrapped \/ Overflows64(difference)]
                       ELSE [s EXCEPT !.data =
                                 WriteAt(s.data, TableEntryV1Size * table_entry_index,
                                         WriteUint32LE(TableOffsetV1(relative,
                                                                     element.flags))),
                                      !.wrapped = s.wrapped \/ Overflows64(difference)]
             ELSE IF Gt(element.size, UINT32_MAX)
                  THEN [s EXCEPT !.failed = TRUE]
                  ELSE [s EXCEPT !.data =
                            WriteAt(s.data, TableEntryV2Size * table_entry_index,
                                    TableEntryV2(element))]

RECURSIVE GenerateLoop(_, _, _, _)
GenerateLoop(list, a, s, table_entry_index) ==
    IF table_entry_index < a.number_of_entries /\ ~s.failed /\ ~s.trapped
    THEN GenerateLoop(list, a, GenerateEntry(list, a, s, table_entry_index),
                      table_entry_index + 1)
    ELSE s

\* libewf_chunk_group_generate_table_entries_data on list with the arguments a;
\* a.table_entries_data is the buffer the caller hands in
GenerateTableEntriesData(list, a) ==
    LET table_entry_data_size ==
            IF a.format_version = 1 THEN TableEntryV1Size ELSE TableEntryV2Size
    IN  IF \/ a.format_version \notin {1, 2}
           \/ a.number_of_entries * table_entry_data_size > Len(a.table_entries_data)
           \/ Lt(a.base_offset, Zero)
        THEN [data |-> a.table_entries_data, result |-> -1, wrapped |-> FALSE]
        ELSE LET s == GenerateLoop(list, a, [data |-> a.table_entries_data,
                                            failed |-> FALSE, wrapped |-> FALSE,
                                            trapped |-> FALSE], 0)
             IN  [data |-> s.data,
                  result |-> IF s.trapped THEN 0 ELSE IF s.failed THEN -1 ELSE 1,
                  wrapped |-> s.wrapped]

----------------------------------------------------------------------------
(* The calls: which arguments the callers hand in                           *)

MaxEntries == 3

MaxV2Entries == 2

MaxOverread == 2

MaxElements == 4

MaxCalls == 2

\* 0x00000010, 0x80000020 and 0x80000000
StoredOffsets ==
    { <<0, 0, 0, 16>>, <<0, 0, 32768, 32>>, <<0, 0, 32768, 0>> }

\* the bytes of a table of version 1 entries
RECURSIVE TableV1(_)
TableV1(offsets) ==
    IF offsets = <<>> THEN <<>>
    ELSE WriteUint32LE(Head(offsets)) \o TableV1(Tail(offsets))

TablesV1(longest) ==
    { TableV1(offsets) : offsets \in UNION { [1..n -> StoredOffsets] : n \in 1..longest } }

\* version 2 entries: chunk_data_offset, chunk_data_size, chunk_data_flags;
\* the flags 0x1, 0x2, 0x3, 0x4, 0x5 and 0x8000000d
EntriesV2 ==
    { <<Num(57005), Num(4096), <<0, 0, 0, flags>> >> : flags \in {1, 2, 3, 4, 5} }
        \cup { << <<0, 1, 0, 64>>, Num(64), <<0, 0, 32768, 13>> >> }

RECURSIVE TableV2(_)
TableV2(entries) ==
    IF entries = <<>> THEN <<>>
    ELSE WriteUint64LE(Head(entries)[1]) \o WriteUint32LE(Head(entries)[2])
             \o WriteUint32LE(Head(entries)[3]) \o TableV2(Tail(entries))

TablesV2 ==
    { TableV2(entries) : entries \in UNION { [1..n -> EntriesV2] : n \in 0..MaxV2Entries } }

\* a table section of 64 bytes at 0x110: with the base offsets 0 and 0x100 the
\* last chunk starts before the section, at its start, or past its end
Sections == { [start_offset |-> Num(272), end_offset |-> Num(336), size |-> Num(64)] }

BaseOffsets == { Num(0), Num(256) }

\* INT64_MAX - 15: with it the offsets 0x10 and 0x20 of StoredOffsets pass
\* INT64_MAX and the offset 0 does not
HighBaseOffset == <<32767, 65535, 65535, 65520>>

ChunkSizes == { <<0, 0, 1, 0>> }

FillPoolEntries == { 0 }

CorrectPoolEntries == { 0, 1 }

Taints == { 0, 1 }

Arguments(function, pool, section, base, count, data, beyond, tainted, version) ==
    [function |-> function, chunk_size |-> CHOOSE c \in ChunkSizes : TRUE,
     file_io_pool_entry |-> pool, table_section |-> section, base_offset |-> base,
     number_of_entries |-> count, table_entries_data |-> data, beyond |-> beyond,
     tainted |-> tainted, format_version |-> version, signed_overflow |-> "wraps"]

NoSection == [start_offset |-> Zero, end_offset |-> Zero, size |-> Zero]

\* fill_v1: a table of number_of_entries entries; a negative base offset; a
\* base offset close to INT64_MAX; number_of_entries 0 with an empty table and
\* the memory after it
FillV1Calls ==
    { Arguments("fill_v1", pool, section, base, Len(data) \div TableEntryV1Size, data,
                <<>>, tainted, 0) :
        pool \in FillPoolEntries, section \in Sections, base \in BaseOffsets,
        data \in TablesV1(MaxEntries), tainted \in Taints }
    \cup
    { Arguments("fill_v1", 0, section, Num(-1), 1, data, <<>>, 0, 0) :
        section \in Sections, data \in TablesV1(1) }
    \cup
    { Arguments("fill_v1", 1, section, HighBaseOffset, Len(data) \div TableEntryV1Size,
                data, <<>>, 0, 0) :
        section \in Sections, data \in TablesV1(2) }
    \cup
    { Arguments("fill_v1", 0, section, base, 0, <<>>, beyond, tainted, 0) :
        section \in Sections, base \in BaseOffsets,
        beyond \in TablesV1(MaxOverread), tainted \in Taints }

\* correct_v1: a table of number_of_entries entries; a negative base offset; a
\* base offset close to INT64_MAX
CorrectV1Calls ==
    { Arguments("correct_v1", pool, section, base, Len(data) \div TableEntryV1Size,
                data, <<>>, tainted, 0) :
        pool \in CorrectPoolEntries, section \in Sections, base \in BaseOffsets,
        data \in TablesV1(MaxEntries), tainted \in Taints }
    \cup
    { Arguments("correct_v1", 0, section, Num(-1), 1, data, <<>>, 0, 0) :
        section \in Sections, data \in TablesV1(1) }
    \cup
    { Arguments("correct_v1", 0, section, HighBaseOffset,
                Len(data) \div TableEntryV1Size, data, <<>>, 0, 0) :
        section \in Sections, data \in TablesV1(2) }

FillV2Calls ==
    { Arguments("fill_v2", pool, section, Zero, Len(data) \div TableEntryV2Size, data,
                <<>>, tainted, 0) :
        pool \in FillPoolEntries, section \in Sections, data \in TablesV2,
        tainted \in Taints }

\* a buffer of size zero bytes
Buffer(size) == [k \in 1..size |-> 0]

GenerateCalls ==
    { Arguments("generate", 0, NoSection, base, count, Buffer(size), <<>>, 0, version) :
        base \in BaseOffsets \cup {Num(-1)}, count \in 0..MaxEntries,
        size \in {TableEntryV1Size * (MaxEntries - 1), TableEntryV1Size * MaxEntries,
                  TableEntryV2Size * MaxEntries},
        version \in {1, 2, 3} }

\* the elements a fill call appends
Walked(a) ==
    IF a.function = "fill_v2" THEN Len(a.table_entries_data) \div TableEntryV2Size
    ELSE InteriorEntries(a) + 1

----------------------------------------------------------------------------
(* The state machine                                                        *)

Init ==
    /\ chunks_list = <<>>
    /\ previous_list = <<>>
    /\ call = Arguments("none", 0, NoSection, Zero, 0, <<>>, <<>>, 0, 0)
    /\ result = 0
    /\ pass = <<>>
    /\ emitted = <<>>
    /\ previous_call = Arguments("none", 0, NoSection, Zero, 0, <<>>, <<>>, 0, 0)
    /\ previous_result = 0
    /\ calls = 0
    /\ build = "unknown"

\* a signed overflow is undefined behaviour: the build either wraps the value
\* into 64 bits or stops the program (-ftrapv, a sanitizer)
Builds == {"wraps", "traps"}

\* what a call that meets a signed overflow (wrapped) can do: either, the first
\* time the program meets one, and the same ever after
Outcomes(wrapped) ==
    IF ~wrapped THEN {"wraps"}
    ELSE IF build = "unknown" THEN Builds ELSE {build}

\* the program stopped in the last call
Stopped == calls > 0 /\ result = 0

\* the program can make one more call
MayCall == calls < MaxCalls /\ ~Stopped

\* what every call leaves behind it
Called(a, returned) ==
    /\ previous_list' = chunks_list
    /\ previous_call' = call
    /\ previous_result' = result
    /\ call' = a
    /\ result' = returned
    /\ calls' = calls + 1

CallFillV1 ==
    \E a \in FillV1Calls :
        LET wraps == FillV1(chunks_list, a)
        IN  /\ MayCall
            /\ Len(chunks_list) + Walked(a) <= MaxElements
            /\ \E outcome \in Outcomes(wraps.wrapped) :
                LET b == [a EXCEPT !.signed_overflow = outcome]
                    r == IF outcome = "wraps" THEN wraps ELSE FillV1(chunks_list, b)
                IN  /\ Called(b, r.result)
                    /\ chunks_list' = r.list
                    /\ pass' = r.pass
                    /\ build' = IF wraps.wrapped THEN outcome ELSE build
                    /\ UNCHANGED emitted

CallFillV2 ==
    \E a \in FillV2Calls :
        LET r == FillV2(chunks_list, a)
        IN  /\ MayCall
            /\ Len(chunks_list) + Walked(a) <= MaxElements
            /\ Called(a, r.result)
            /\ chunks_list' = r.list
            /\ pass' = r.pass
            /\ UNCHANGED <<emitted, build>>

CallCorrectV1 ==
    \E a \in CorrectV1Calls :
        LET wraps == CorrectV1(chunks_list, a)
        IN  /\ MayCall
            /\ \E outcome \in Outcomes(wraps.wrapped) :
                LET b == [a EXCEPT !.signed_overflow = outcome]
                    r == IF outcome = "wraps" THEN wraps ELSE CorrectV1(chunks_list, b)
                IN  /\ Called(b, r.result)
                    /\ chunks_list' = r.list
                    /\ pass' = r.pass
                    /\ build' = IF wraps.wrapped THEN outcome ELSE build
                    /\ UNCHANGED emitted

CallGenerate ==
    \E a \in GenerateCalls :
        LET wraps == GenerateTableEntriesData(chunks_list, a)
        IN  /\ MayCall
            /\ \E outcome \in Outcomes(wraps.wrapped) :
                LET b == [a EXCEPT !.signed_overflow = outcome]
                    r == IF outcome = "wraps" THEN wraps
                         ELSE GenerateTableEntriesData(chunks_list, b)
                IN  /\ Called(b, r.result)
                    /\ emitted' = r.data
                    /\ pass' = <<>>
                    /\ build' = IF wraps.wrapped THEN outcome ELSE build
                    /\ UNCHANGED chunks_list

Next == CallFillV1 \/ CallFillV2 \/ CallCorrectV1 \/ CallGenerate

Spec == Init /\ [][Next]_vars

----------------------------------------------------------------------------
(* Claims                                                                   *)

\* the last call was function and it returned returned
Returned(function, returned) == call.function = function /\ result = returned

\* element k (from 1) of those the last call appended
Appended(k) == chunks_list[Len(previous_list) + k]

\* k times x, k a small number
Times(k, x) == Norm(k * x[1], k * x[2], k * x[3], k * x[4])

\* C1: a fill_v1 call that returns success has appended exactly
\* number_of_entries elements, for every number_of_entries from 0 on, and the
\* elements the list held before are where they were
C1_AppendsExactlyN ==
    Returned("fill_v1", 1) =>
        /\ Len(chunks_list) = Len(previous_list) + call.number_of_entries
        /\ SubSeq(chunks_list, 1, Len(previous_list)) = previous_list

\* C2: after one successful fill_v1 or fill_v2 on an empty list, the element
\* derived from table entry k is element k of the list and its mapped range is
\* [k * chunk_size, (k + 1) * chunk_size)
C2_TableOrderAndMappedRanges ==
    (call.function \in {"fill_v1", "fill_v2"} /\ result = 1 /\ previous_list = <<>>) =>
        /\ Len(chunks_list) >= call.number_of_entries
        /\ \A k \in 0..(call.number_of_entries - 1) :
            /\ chunks_list[k + 1].mapped_offset = Times(k, call.chunk_size)
            /\ chunks_list[k + 1].mapped_size = call.chunk_size
            /\ call.function = "fill_v1" =>
                  chunks_list[k + 1].offset =
                      Int64(Add(call.base_offset,
                                DecodeOffset(StoredOffset(call, k), pass[k + 1].overflow)))
            /\ call.function = "fill_v2" =>
                  \/ chunks_list[k + 1].offset =
                         ReadUint64LE(call.table_entries_data, TableEntryV2Size * k)
                  \/ /\ USES_PATTERN_FILL \in chunks_list[k + 1].flags
                     /\ chunks_list[k + 1].offset =
                            Add(call.table_section.start_offset,
                                Num(TableHeaderV2Size + TableEntryV2Size * k))

\* a fill_v1 of three entries and a fill_v2 of two entries, on an empty list
C2_Witness ==
    /\ previous_list = <<>>
    /\ result = 1
    /\ \/ call.function = "fill_v1" /\ call.number_of_entries = 3
          /\ chunks_list[3].mapped_offset = <<0, 0, 2, 0>>
       \/ call.function = "fill_v2" /\ call.number_of_entries = 2
          /\ chunks_list[2].mapped_offset = <<0, 0, 1, 0>>

\* C3: in a fill_v1 pass overflow starts clear, once set it stays set to the
\* end of the pass, and every element appended with overflow set lacks
\* IS_COMPRESSED and has HAS_CHECKSUM, whatever bit 31 of its stored offset
C3_OverflowLatch ==
    (call.function = "fill_v1" /\ pass # <<>>) =>
        /\ pass[1].overflow = 0
        /\ \A i \in 1..Len(pass), j \in 1..Len(pass) :
              (i < j /\ pass[i].overflow = 1) => pass[j].overflow = 1
        /\ \A k \in 1..Len(pass) :
              (result = 1 /\ pass[k].overflow = 1) =>
                  /\ IS_COMPRESSED \notin Appended(k).flags
                  /\ HAS_CHECKSUM \in Appended(k).flags

\* overflow set before an entry that has a successor and before the last one,
\* both with bit 31 of the stored offset set
C3_Witness ==
    /\ Returned("fill_v1", 1)
    /\ Len(pass) = 3
    /\ pass[2].overflow = 1 /\ Bit31(pass[2].stored_offset) = 1
    /\ pass[3].overflow = 1 /\ Bit31(pass[3].stored_offset) = 1
    /\ HAS_CHECKSUM \in Appended(2).flags
    /\ HAS_CHECKSUM \in Appended(3).flags

\* C4: a successful fill_v1 of N >= 1 entries on an empty list, then a
\* successful generate of format version 1 with the same N and base offset:
\* fill_v1 on the bytes generate wrote, with the same base offset, section and
\* chunk size, gives at every position the offset and the IS_COMPRESSED flag
\* the list holds
C4_RoundTrip ==
    (/\ calls = 2
     /\ Returned("generate", 1) /\ call.format_version = 1
     /\ previous_call.function = "fill_v1" /\ previous_result = 1
     /\ previous_call.number_of_entries >= 1
     /\ call.number_of_entries = previous_call.number_of_entries
     /\ call.base_offset = previous_call.base_offset) =>
        LET N == call.number_of_entries
            again == FillV1(<<>>, [previous_call EXCEPT
                                      !.table_entries_data =
                                          SubSeq(emitted, 1, TableEntryV1Size * N)])
        IN  /\ again.result = 1
            /\ Len(again.list) = N
            /\ Len(chunks_list) = N
            /\ \A k \in 1..N :
                /\ again.list[k].offset = chunks_list[k].offset
                /\ (IS_COMPRESSED \in again.list[k].flags)
                       = (IS_COMPRESSED \in chunks_list[k].flags)

\* three entries at base offset 0x100, the second compressed, written back
C4_Witness ==
    /\ calls = 2
    /\ Returned("generate", 1) /\ call.format_version = 1
    /\ previous_call.function = "fill_v1" /\ previous_result = 1
    /\ previous_call.number_of_entries = 3 /\ call.number_of_entries = 3
    /\ call.base_offset = Num(256) /\ previous_call.base_offset = Num(256)
    /\ IS_COMPRESSED \notin chunks_list[1].flags
    /\ IS_COMPRESSED \in chunks_list[2].flags

\* C5: a fill_v1, fill_v2 or correct_v1 call that returns an error leaves the
\* list holding the elements and mapped ranges it held before the call; a
\* correct_v1 over more entries than the list has elements overwrites none
C5_NoPartialCommit ==
    (call.function \in {"fill_v1", "fill_v2", "correct_v1"} /\ result = -1) =>
        chunks_list = previous_list

\* the data range correct_v1 derives for entry i (from 0) of its table, from
\* the overflow the pass had at that entry: offset, size, is_compressed, corrupted
Derived(i) ==
    LET overflow == pass[i + 1].overflow
        stored_offset == pass[i + 1].stored_offset
        current_offset == DecodeOffset(stored_offset, overflow)
        offset == Int64(Add(call.base_offset, current_offset))
        is_compressed == IF overflow = 0 THEN Bit31(stored_offset) ELSE 0
    IN  IF i < call.number_of_entries - 1
        THEN LET stored_next == pass[i + 2].stored_offset
                 next_offset == DecodeOffset(stored_next, overflow)
                 size == ChunkDataSize(current_offset, next_offset, stored_next)
             IN  [offset |-> offset, size |-> size, is_compressed |-> is_compressed,
                  corrupted |-> InteriorCorrupted(current_offset, next_offset,
                                                  stored_next, size)]
        ELSE LET size == Sub(LastChunkDataSize(offset, call.table_section),
                             call.table_section.size)
             IN  [offset |-> offset, size |-> size, is_compressed |-> is_compressed,
                  corrupted |-> LastCorrupted(size)]

\* element i (from 0) is as the precedence rule says: the derived data range
\* when the rule overwrites, the element of before when it does not
Reconciled(i) ==
    LET previous == previous_list[i + 1]
        new == Derived(i)
        mismatch == \/ new.offset # previous.offset
                    \/ new.size # previous.size
                    \/ (new.is_compressed # 0) # (IS_COMPRESSED \in previous.flags)
        overwrite ==
            \/ mismatch /\ new.corrupted = 0 /\ call.tainted = 0
            \/ mismatch /\ IS_CORRUPTED \in previous.flags /\ new.corrupted = 0
            \/ ~mismatch /\ IS_TAINTED \in previous.flags
        now == chunks_list[i + 1]
    IN  IF overwrite
        THEN /\ now.file_io_pool_entry = call.file_io_pool_entry
             /\ now.offset = new.offset
             /\ now.size = new.size
             /\ (IS_COMPRESSED \in now.flags) = (new.is_compressed # 0)
             /\ (IS_CORRUPTED \in now.flags) = (new.corrupted # 0)
             /\ (IS_TAINTED \in now.flags) = (call.tainted # 0)
             /\ now.mapped_offset = previous.mapped_offset
             /\ now.mapped_size = previous.mapped_size
        ELSE now = previous

\* C6: after a successful correct_v1 every element i below number_of_entries,
\* the last one included, is overwritten with the derived data range if and
\* only if (mismatch, new not corrupted, not tainted) or (mismatch, previous
\* corrupted, new not corrupted) or (no mismatch, previous tainted), and is
\* otherwise as it was
C6_OverwriteRule ==
    Returned("correct_v1", 1) =>
        \A i \in 0..(call.number_of_entries - 1) : Reconciled(i)

\* the flags word of entry k (from 0) of the version 2 table of the call
FlagsWord(k) == ReadUint32LE(call.table_entries_data, TableEntryV2Size * k + 12)

\* C7: in fill_v2 every element has IS_COMPRESSED iff bit 0x1 or bit 0x4 of
\* the flags word is set, HAS_CHECKSUM iff bit 0x2, USES_PATTERN_FILL iff bit
\* 0x4, IS_TAINTED iff tainted is not zero; higher bits change nothing and
\* the call does not fail
C7_FlagMapping ==
    call.function = "fill_v2" =>
        /\ result = 1
        /\ Len(chunks_list) = Len(previous_list) + call.number_of_entries
        /\ \A k \in 0..(call.number_of_entries - 1) :
              Appended(k + 1).flags =
                  (IF FlagsWord(k)[4] % 2 = 1 \/ (FlagsWord(k)[4] \div 4) % 2 = 1
                   THEN {IS_COMPRESSED} ELSE {})
                  \cup (IF (FlagsWord(k)[4] \div 2) % 2 = 1 THEN {HAS_CHECKSUM} ELSE {})
                  \cup (IF (FlagsWord(k)[4] \div 4) % 2 = 1
                        THEN {USES_PATTERN_FILL} ELSE {})
                  \cup (IF call.tainted # 0 THEN {IS_TAINTED} ELSE {})

\* C7, amended: in fill_v2 every element has IS_COMPRESSED iff bit 0x1 of the
\* flags word is set, HAS_CHECKSUM iff bit 0x2, USES_PATTERN_FILL iff bit 0x1
\* and bit 0x4 are both set (bit 0x4 alone gives neither), IS_TAINTED iff
\* tainted is not zero; higher bits change nothing and the call does not fail
C7_FlagMappingAmended ==
    call.function = "fill_v2" =>
        /\ result = 1
        /\ Len(chunks_list) = Len(previous_list) + call.number_of_entries
        /\ \A k \in 0..(call.number_of_entries - 1) :
              Appended(k + 1).flags =
                  (IF FlagsWord(k)[4] % 2 = 1 THEN {IS_COMPRESSED} ELSE {})
                  \cup (IF (FlagsWord(k)[4] \div 2) % 2 = 1 THEN {HAS_CHECKSUM} ELSE {})
                  \cup (IF FlagsWord(k)[4] % 2 = 1 /\ (FlagsWord(k)[4] \div 4) % 2 = 1
                        THEN {USES_PATTERN_FILL} ELSE {})
                  \cup (IF call.tainted # 0 THEN {IS_TAINTED} ELSE {})

\* a flags word of 0x4 alone and one of 0x8000000d in one table
C7_Witness ==
    /\ Returned("fill_v2", 1)
    /\ call.number_of_entries = 2
    /\ FlagsWord(0) = <<0, 0, 0, 4>>
    /\ Appended(1).flags = {}
    /\ FlagsWord(1) = <<0, 0, 32768, 13>>
    /\ Appended(2).flags = {IS_COMPRESSED, USES_PATTERN_FILL}

\* C8: every element fill_v2 appends with USES_PATTERN_FILL has IS_COMPRESSED,
\* size 8 and offset table_section.start_offset + the table header size + 16 * i,
\* i its entry's position in the table from 0, whatever offset and size the
\* entry stores
C8_PatternFill ==
    Returned("fill_v2", 1) =>
        \A k \in 0..(call.number_of_entries - 1) :
            USES_PATTERN_FILL \in Appended(k + 1).flags =>
                /\ IS_COMPRESSED \in Appended(k + 1).flags
                /\ Appended(k + 1).size = <<0, 0, 0, 8>>
                /\ Appended(k + 1).offset =
                       Add(call.table_section.start_offset, Num(24 + 16 * k))

\* a pattern fill in the second entry, which stores offset 0xdead and size 4096
C8_Witness ==
    /\ Returned("fill_v2", 1)
    /\ call.number_of_entries = 2
    /\ USES_PATTERN_FILL \in Appended(2).flags
    /\ ReadUint64LE(call.table_entries_data, TableEntryV2Size) = Num(57005)
    /\ ReadUint32LE(call.table_entries_data, TableEntryV2Size + 8) = Num(4096)
    /\ Appended(2).offset = Num(272 + 24 + 16)

\* the offset of element i (from 0) less the base offset of the call
Relative(i) == Sub(chunks_list[i + 1].offset, call.base_offset)

\* the four bytes of x, a number from 0 to INT32_MAX, bit 31 set for compressed
BytesV1(x, compressed) ==
    << x[4] % 256, x[4] \div 256, x[3] % 256,
       (x[3] \div 256) + (IF compressed THEN 128 ELSE 0) >>

\* C9: generate with format version 1 over N entries, when it succeeds, has
\* written for every i < N, in list order, the offset of element i less the
\* base offset as 4 bytes little-endian with bit 31 set iff the element has
\* IS_COMPRESSED; it fails when for some i < N that value is below 0 or above
\* INT32_MAX, when the format version is neither 1 nor 2, and when N times
\* the entry size is more than the size of the buffer
C9_EmitV1 ==
    call.function = "generate" =>
        /\ (call.format_version = 1 /\ result = 1) =>
              \A i \in 0..(call.number_of_entries - 1) :
                  /\ i < Len(chunks_list)
                  /\ SubSeq(emitted, 4 * i + 1, 4 * i + 4) =
                         BytesV1(Relative(i), IS_COMPRESSED \in chunks_list[i + 1].flags)
        /\ (/\ call.format_version = 1
            /\ \E i \in 0..(call.number_of_entries - 1) :
                  /\ i < Len(chunks_list)
                  /\ Lt(Relative(i), Zero) \/ Gt(Relative(i), <<0, 0, 32767, 65535>>)) =>
              result = -1
        /\ call.format_version \notin {1, 2} => result = -1
        /\ (call.format_version = 1
            /\ 4 * call.number_of_entries > Len(call.table_entries_data)) => result = -1
        /\ (call.format_version = 2
            /\ 16 * call.number_of_entries > Len(call.table_entries_data)) => result = -1

\* two entries at base offset 0 written, the second with bit 31 set
C9_Witness ==
    /\ Returned("generate", 1) /\ call.format_version = 1
    /\ call.number_of_entries = 2 /\ call.base_offset = Zero
    /\ IS_COMPRESSED \in chunks_list[2].flags
    /\ SubSeq(emitted, 1, 8) = <<16, 0, 0, 0, 32, 0, 0, 128>>

\* list without the IS_CORRUPTED and IS_TAINTED flags of its elements
WithoutDerivedFlags(list) ==
    [k \in 1..Len(list) |->
        [list[k] EXCEPT !.flags = list[k].flags \ {IS_CORRUPTED, IS_TAINTED}]]

\* the sixteen bytes of a version 2 entry
BytesV2(element) ==
    << element.offset[4] % 256, element.offset[4] \div 256,
       element.offset[3] % 256, element.offset[3] \div 256,
       element.offset[2] % 256, element.offset[2] \div 256,
       (element.offset[1] % 65536) % 256, (element.offset[1] % 65536) \div 256,
       element.size[4] % 256, element.size[4] \div 256,
       element.size[3] % 256, element.size[3] \div 256,
       (IF IS_COMPRESSED \in element.flags THEN 1 ELSE 0)
           + (IF HAS_CHECKSUM \in element.flags THEN 2 ELSE 0)
           + (IF USES_PATTERN_FILL \in element.flags THEN 4 ELSE 0),
       0, 0, 0 >>

\* C10: generate with format version 2, when it succeeds, has written for
\* every element its offset as 8 bytes little-endian, its size as 4 bytes
\* little-endian and a flags word of exactly 0x1 for IS_COMPRESSED, 0x2 for
\* HAS_CHECKSUM and 0x4 for USES_PATTERN_FILL; in both format versions the
\* bytes and the return value are those of the list without its IS_CORRUPTED
\* and IS_TAINTED flags; and generate leaves the list as it was
C10_EmitV2 ==
    call.function = "generate" =>
        /\ (call.format_version = 2 /\ result = 1) =>
              \A i \in 0..(call.number_of_entries - 1) :
                  /\ i < Len(chunks_list)
                  /\ SubSeq(emitted, 16 * i + 1, 16 * i + 16) = BytesV2(chunks_list[i + 1])
        /\ GenerateTableEntriesData(WithoutDerivedFlags(chunks_list), call).data
               = emitted
        /\ GenerateTableEntriesData(WithoutDerivedFlags(chunks_list), call).result
               = result
        /\ chunks_list = previous_list

\* two tainted elements, the first a pattern fill, written as version 2 entries
C10_Witness ==
    /\ Returned("generate", 1) /\ call.format_version = 2
    /\ call.number_of_entries = 2
    /\ IS_TAINTED \in chunks_list[1].flags
    /\ USES_PATTERN_FILL \in chunks_list[1].flags
    /\ IS_TAINTED \in chunks_list[2].flags
    /\ emitted[13] = 5
    /\ emitted[9] = 8

\* the pass of the last call came to the last entry of its table
AtLastEntry ==
    /\ call.function \in {"fill_v1", "correct_v1"}
    /\ Len(pass) = InteriorEntries(call) + 1

\* base_offset + current_offset of the last entry, as a number
LastOffsetSum ==
    Add(call.base_offset,
        DecodeOffset(pass[Len(pass)].stored_offset, pass[Len(pass)].overflow))

\* C11: fill_v1 and correct_v1 return an error, the last element neither
\* appended nor overwritten, whenever base_offset + current_offset of the last
\* entry is more than INT64_MAX; and no element of the list ever has an offset
\* below 0
C11_Int64MaxIsFatal ==
    /\ (AtLastEntry /\ Gt(LastOffsetSum, <<32767, 65535, 65535, 65535>>)) =>
          /\ result = -1
          /\ Len(chunks_list) = Len(previous_list) + (IF call.function = "fill_v1"
                                                      THEN Len(pass) - 1 ELSE 0)
          /\ call.function = "correct_v1" =>
                 (Len(pass) <= Len(chunks_list) =>
                      chunks_list[Len(pass)] = previous_list[Len(pass)])
    /\ \A k \in 1..Len(chunks_list) : ~Lt(chunks_list[k].offset, Zero)

\* the stored offset of entry i (from 0) of the table of the call and the
\* overflow the pass had when it came to it
Stored(i) == ReadUint32LE(call.table_entries_data, 4 * i)

OverflowAt(i) == pass[i + 1].overflow

\* x as entry i has it decoded: the low 31 bits while overflow is clear, all
\* 32 bits once it is set
DecodedAt(i, x) ==
    IF OverflowAt(i) = 0 THEN <<0, 0, x[3] % 32768, x[4]>> ELSE x

\* the size of entry i, an entry that has a successor: next - current, or
\* the stored next offset less current modulo 2^32 when next is below current
SizeAt(i) ==
    LET current == DecodedAt(i, Stored(i))
        next == DecodedAt(i, Stored(i + 1))
        difference == IF Lt(next, current)
                      THEN Sub(Stored(i + 1), current)
                      ELSE Sub(next, current)
    IN  <<0, 0, difference[3], difference[4]>>

\* C12: every entry i from 0 to N - 2 of a successful fill_v1 has appended an
\* element with offset base_offset + current and size next - current when
\* next >= current, else the stored next offset less current modulo 2^32;
\* current and next are the low 31 bits of the stored offsets while overflow
\* is clear and all 32 bits once it is set
C12_InteriorRange ==
    Returned("fill_v1", 1) =>
        \A i \in 0..(call.number_of_entries - 2) :
            /\ Appended(i + 1).offset = Add(call.base_offset, DecodedAt(i, Stored(i)))
            /\ Appended(i + 1).size = SizeAt(i)

\* C13: every entry of a successful fill_v1 that has a successor has appended
\* an element with IS_CORRUPTED if and only if its size is 0, or its size is
\* more than INT32_MAX, or next is below current and the stored next offset is
\* below current too; and a fill_v1 that is given a base offset of 0 or more
\* and returns, returns 1 however many of its entries are corrupted
C13_InteriorCorrupted ==
    /\ Returned("fill_v1", 1) =>
          \A i \in 0..(call.number_of_entries - 2) :
              (IS_CORRUPTED \in Appended(i + 1).flags)
                  <=> \/ SizeAt(i) = <<0, 0, 0, 0>>
                      \/ Gt(SizeAt(i), <<0, 0, 32767, 65535>>)
                      \/ /\ Lt(DecodedAt(i, Stored(i + 1)), DecodedAt(i, Stored(i)))
                         /\ Lt(Stored(i + 1), DecodedAt(i, Stored(i)))
    /\ (call.function = "fill_v1" /\ ~Lt(call.base_offset, Zero) /\ ~Stopped) =>
          result = 1

\* three entries, the first with a stored next offset below it, the second of
\* size 0: both elements corrupted and the call returns 1
C13_Witness ==
    /\ Returned("fill_v1", 1)
    /\ call.number_of_entries = 3
    /\ Lt(Stored(1), DecodedAt(0, Stored(0)))
    /\ IS_CORRUPTED \in Appended(1).flags
    /\ SizeAt(1) = <<0, 0, 0, 0>>
    /\ IS_CORRUPTED \in Appended(2).flags

\* current + size of entry i, an entry that has a successor, as a number
SumAt(i) == Add(DecodedAt(i, Stored(i)), SizeAt(i))

\* overflow is set after entry i, which found it clear
EngagesAfter(i) == pass[i + 1].overflow = 0 /\ pass[i + 1].overflow_after = 1

\* C14: in a fill_v1 or correct_v1 pass overflow is set after an entry that
\* found it clear exactly when current + size, as a number without bound, is
\* more than 2^31 - 1, the size of the modulo 2^32 subtraction included; it is
\* set after no other entry and never after the last one
C14_LatchOnUnboundedSum ==
    (call.function \in {"fill_v1", "correct_v1"} /\ result = 1
     /\ call.number_of_entries >= 1) =>
        /\ \A i \in 0..(call.number_of_entries - 2) :
              /\ OverflowAt(i) = 0 =>
                    (EngagesAfter(i) <=> Gt(SumAt(i), <<0, 0, 32767, 65535>>))
              /\ OverflowAt(i) = 1 => pass[i + 1].overflow_after = 1
        /\ ~EngagesAfter(call.number_of_entries - 1)

\* C14, amended: in a fill_v1 or correct_v1 pass overflow is set after an
\* entry that found it clear exactly when current + size modulo 2^32 is more
\* than 2^31 - 1, which is when next is below current and the stored next
\* offset is 2^31 or more; the size of the modulo 2^32 subtraction of a stored
\* next offset below current wraps the sum and does not set it; it is set
\* after no other entry and never after the last one
C14_LatchOnWrappedSum ==
    (call.function \in {"fill_v1", "correct_v1"} /\ result = 1
     /\ call.number_of_entries >= 1) =>
        /\ \A i \in 0..(call.number_of_entries - 2) :
              /\ OverflowAt(i) = 0 =>
                    /\ EngagesAfter(i)
                           <=> Gt(<<0, 0, SumAt(i)[3], SumAt(i)[4]>>, <<0, 0, 32767, 65535>>)
                    /\ EngagesAfter(i)
                           <=> /\ Lt(DecodedAt(i, Stored(i + 1)), DecodedAt(i, Stored(i)))
                               /\ Stored(i + 1)[3] >= 32768
              /\ OverflowAt(i) = 1 => pass[i + 1].overflow_after = 1
        /\ ~EngagesAfter(call.number_of_entries - 1)

\* a first entry whose sum is 2^32 + 0x10 and leaves overflow clear, a second
\* whose sum is 2^31 and sets it
C14_Witness ==
    /\ Returned("fill_v1", 1)
    /\ call.number_of_entries = 3
    /\ SumAt(0) = <<0, 1, 0, 16>>
    /\ pass[1].overflow_after = 0
    /\ SumAt(1) = <<0, 0, 32768, 0>>
    /\ EngagesAfter(1)
    /\ pass[3].overflow = 1 /\ pass[3].overflow_after = 1

\* base_offset + current of the last entry of the table, as a number
LastOffset ==
    Add(call.base_offset,
        DecodedAt(call.number_of_entries - 1, Stored(call.number_of_entries - 1)))

\* the size the table section gives an element at offset last_off
SectionBoundedSize(last_off) ==
    IF Lt(last_off, call.table_section.start_offset)
    THEN Sub(call.table_section.start_offset, last_off)
    ELSE IF Lt(last_off, call.table_section.end_offset)
         THEN Sub(call.table_section.end_offset, last_off)
         ELSE <<0, 0, 0, 0>>

\* C15: the last entry of a successful fill_v1 has appended an element with
\* offset last_off = base_offset + current and size start_offset - last_off
\* when last_off is below start_offset, else end_offset - last_off when it is
\* below end_offset, else 0; the element has IS_CORRUPTED iff that size is 0
\* or less or more than INT32_MAX
C15_LastRange ==
    (Returned("fill_v1", 1) /\ call.number_of_entries >= 1) =>
        LET last == Appended(call.number_of_entries)
        IN  /\ last.offset = LastOffset
            /\ last.size = SectionBoundedSize(LastOffset)
            /\ (IS_CORRUPTED \in last.flags)
                   <=> \/ ~Gt(SectionBoundedSize(LastOffset), <<0, 0, 0, 0>>)
                       \/ Gt(SectionBoundedSize(LastOffset), <<0, 0, 32767, 65535>>)

\* entry k (from 1) of the pass is compressed: bit 31 of its stored offset is
\* set and overflow was clear when the pass came to it
CompressedInPass(k) ==
    pass[k].overflow = 0 /\ pass[k].stored_offset[3] >= 32768

\* C16: every element fill_v1 appends, for the last entry as for the others,
\* has exactly one of IS_COMPRESSED and HAS_CHECKSUM: IS_COMPRESSED when bit
\* 31 of the stored offset is set while overflow is clear, HAS_CHECKSUM
\* otherwise; it has IS_TAINTED iff tainted is not zero, never has
\* USES_PATTERN_FILL, and has the file_io_pool_entry of the call
C16_FillV1Flags ==
    call.function = "fill_v1" =>
        \A k \in 1..(Len(chunks_list) - Len(previous_list)) :
            /\ (IS_COMPRESSED \in Appended(k).flags) <=> CompressedInPass(k)
            /\ (HAS_CHECKSUM \in Appended(k).flags) <=> ~CompressedInPass(k)
            /\ (IS_TAINTED \in Appended(k).flags) <=> call.tainted # 0
            /\ USES_PATTERN_FILL \notin Appended(k).flags
            /\ Appended(k).file_io_pool_entry = call.file_io_pool_entry

\* a tainted pass of three entries, the first compressed, the second not
C16_Witness ==
    /\ Returned("fill_v1", 1)
    /\ call.number_of_entries = 3
    /\ call.tainted = 1
    /\ Appended(1).flags \ {IS_CORRUPTED} = {IS_COMPRESSED, IS_TAINTED}
    /\ Appended(2).flags \ {IS_CORRUPTED} = {HAS_CHECKSUM, IS_TAINTED}
    /\ IS_TAINTED \in Appended(3).flags

\* C17: every element correct_v1 writes has the flags fill_v1 derives for the
\* entry: IS_COMPRESSED without HAS_CHECKSUM when the entry is compressed,
\* HAS_CHECKSUM without IS_COMPRESSED when it is not; correct_v1 leaves no
\* element with both
C17_CorrectV1Flags ==
    call.function = "correct_v1" =>
        \A k \in 1..Len(chunks_list) :
            (k <= Len(pass) /\ chunks_list[k] # previous_list[k]) =>
                /\ (IS_COMPRESSED \in chunks_list[k].flags) <=> CompressedInPass(k)
                /\ (HAS_CHECKSUM \in chunks_list[k].flags) <=> ~CompressedInPass(k)

\* the size correct_v1 derives for the last entry: the section-bounded size
\* less the size of the table section, as a size64_t
DerivedLastSize == Uint64(Derived(call.number_of_entries - 1).size)

\* C18: after a successful correct_v1 the last entry's element, when it was
\* overwritten, has the derived last size (the section-bounded size less
\* table_section.size), and it was compared with that size: an element that
\* differs from the derived data range in its size alone is overwritten when
\* the entry is neither corrupted nor tainted; the size of the entry before
\* plays no part
C18_LastSizeInCorrectV1 ==
    (Returned("correct_v1", 1) /\ call.number_of_entries >= 1) =>
        LET N == call.number_of_entries
            new == Derived(N - 1)
        IN  /\ chunks_list[N] # previous_list[N] => chunks_list[N].size = DerivedLastSize
            /\ (/\ previous_list[N].offset = new.offset
                /\ (IS_COMPRESSED \in previous_list[N].flags) = (new.is_compressed # 0)
                /\ previous_list[N].size # DerivedLastSize
                /\ new.corrupted = 0
                /\ call.tainted = 0) =>
                   chunks_list[N].size = DerivedLastSize

\* correct_v1 has left the length of the list, every mapped range and every
\* element from position N (from 0) on as they were
CorrectV1Frame ==
    /\ Len(chunks_list) = Len(previous_list)
    /\ \A k \in 1..Len(chunks_list) :
          /\ chunks_list[k].mapped_offset = previous_list[k].mapped_offset
          /\ chunks_list[k].mapped_size = previous_list[k].mapped_size
          /\ k > call.number_of_entries => chunks_list[k] = previous_list[k]

\* element i (from 0) is the one of before, or holds the data range derived
\* from entry i of the table
UntouchedOrDerived(i) ==
    \/ chunks_list[i + 1] = previous_list[i + 1]
    \/ /\ chunks_list[i + 1].file_io_pool_entry = call.file_io_pool_entry
       /\ chunks_list[i + 1].offset = Derived(i).offset
       /\ chunks_list[i + 1].size = Uint64(Derived(i).size)
       /\ (IS_COMPRESSED \in chunks_list[i + 1].flags) = (Derived(i).is_compressed # 0)

\* C19: correct_v1 changes neither the length of the list, nor the mapped
\* range of any element, nor any element at a position N or more; an element
\* i below N is left as it was or replaced by the data range derived from
\* entry i of the table, so the elements keep their order
C19_CorrectV1Frame ==
    call.function = "correct_v1" =>
        /\ CorrectV1Frame
        /\ result = 1 =>
              \A i \in 0..(call.number_of_entries - 1) : UntouchedOrDerived(i)

\* every call made so far was a fill_v1 or a fill_v2 that returned 1
OnlySuccessfulFills ==
    /\ calls \in 1..2
    /\ call.function \in {"fill_v1", "fill_v2"} /\ result = 1
    /\ calls = 2 => (previous_call.function \in {"fill_v1", "fill_v2"}
                     /\ previous_result = 1
                     /\ previous_call.chunk_size = call.chunk_size)

\* C20: after successful fill_v1 and fill_v2 calls with one chunk_size on a
\* list that started empty, the element at position k (from 0) has the mapped
\* range [k * chunk_size, (k + 1) * chunk_size): over the calls the mapped
\* ranges start at 0, follow one another without gap or overlap, and grow in
\* the order of insertion
C20_MappedRangesAcrossCalls ==
    OnlySuccessfulFills =>
        \A k \in 0..(Len(chunks_list) - 1) :
            /\ chunks_list[k + 1].mapped_offset = Times(k, call.chunk_size)
            /\ chunks_list[k + 1].mapped_size = call.chunk_size

\* correct_v1 was called on the list of a successful untainted fill_v1 of an
\* empty list, with the table, the number of entries, the base offset, the
\* section and the pool entry of that fill_v1, and untainted
BackupEqualsPrimary ==
    /\ calls = 2
    /\ previous_call.function = "fill_v1" /\ previous_result = 1
    /\ previous_call.tainted = 0
    /\ call.function = "correct_v1" /\ call.tainted = 0
    /\ call.table_entries_data = previous_call.table_entries_data
    /\ call.number_of_entries = previous_call.number_of_entries
    /\ call.base_offset = previous_call.base_offset
    /\ call.table_section = previous_call.table_section
    /\ call.file_io_pool_entry = previous_call.file_io_pool_entry

\* the data range of the element at position i (from 1) is the one it had
\* before the last call
SameDescriptor(i) ==
    /\ chunks_list[i].file_io_pool_entry = previous_list[i].file_io_pool_entry
    /\ chunks_list[i].offset = previous_list[i].offset
    /\ chunks_list[i].size = previous_list[i].size
    /\ chunks_list[i].flags = previous_list[i].flags

\* C21: when a list made by a successful untainted fill_v1 of an empty list is
\* passed to correct_v1 with the same table, number of entries, base offset,
\* section and pool entry, untainted (a backup table equal to the primary),
\* every element keeps its pool entry, offset, size and flags
C21_IdenticalBackupChangesNothing ==
    BackupEqualsPrimary =>
        /\ Len(chunks_list) = Len(previous_list)
        /\ \A i \in 1..Len(chunks_list) : SameDescriptor(i)

====
